---- MODULE Spec2Model ----
(***************************************************************************)
(* A model of lich-ta-rs (src/src/util.rs): the conversion of a Gregorian  *)
(* date and a timezone into a date of the lunisolar calendar.              *)
(*                                                                         *)
(* Numbers.  The code computes in f64.  The model computes the same        *)
(* expressions in decimal fixed point:                                     *)
(*   - a "long number" is a sequence of Limbs digits of base 1000, lowest  *)
(*     first, of which the lowest Frac are the fraction (digit 1 counts    *)
(*     10^-12, digit 3 counts 10^-6, digit 5 counts units); every digit is *)
(*     in 0..999 but the highest, which carries the sign and the rest;     *)
(*   - a "micro" value is an integer n that stands for n / 10^6;           *)
(*   - a decimal constant of the code is the triple <<whole, micro, pico>> *)
(*     that stands for whole + micro / 10^6 + pico / 10^12, exactly;       *)
(*   - the timezone is carried in minutes (7.0 hours is 420).              *)
(* The sine is its Taylor polynomial, exact to about 10^-6.  Where the     *)
(* code binds a local that is used more than once, the model passes it as  *)
(* a parameter to an operator that holds the rest of the function.         *)
(***************************************************************************)
EXTENDS Integers, Sequences, FiniteSets, TLC

(* The element of a set of one element.  `let x = e; f(x)` of the code is  *)
(* The({f(x) : x \in {e}}): e is computed once, before f.                  *)
The(S) == CHOOSE r \in S : TRUE

U == 1000 * 1000
Limbs == 10
Frac == 4

(* The product of two micro values, as a micro value: floor(a * b / 10^6). *)
MulU(a, b) ==
    LET a1 == a \div 1000
        a0 == a % 1000
        b1 == b \div 1000
        b0 == b % 1000
    IN  a1 * b1 + ((a1 * b0 + a0 * b1 + ((a0 * b0) \div 1000)) \div 1000)

(* The digits of s, of which there are n, brought into 0..999 from digit i *)
(* on, c being carried into digit i.                                       *)
RECURSIVE Carry(_, _, _, _)
Carry(s, n, i, c) ==
    IF i = n THEN <<s[i] + c>>
    ELSE <<(s[i] + c) % 1000>> \o Carry(s, n, i + 1, (s[i] + c) \div 1000)

BNorm(s) == Carry(s, Limbs, 1, 0)
BAdd(a, b) == BNorm([i \in 1..Limbs |-> a[i] + b[i]])
BSub(a, b) == BNorm([i \in 1..Limbs |-> a[i] - b[i]])
BNeg(a) == BNorm([i \in 1..Limbs |-> -a[i]])
BIsNeg(a) == a[Limbs] < 0
BAbs(a) == IF BIsNeg(a) THEN BNeg(a) ELSE a
BLess(a, b) == BIsNeg(BSub(a, b))
BLeq(a, b) == ~BLess(b, a)

(* whole + micro / 10^6 + pico / 10^12, each part an integer of either sign. *)
BDec(whole, micro, pico) ==
    BNorm([i \in 1..Limbs |->
             IF i = 5 THEN whole ELSE IF i = 3 THEN micro ELSE IF i = 1 THEN pico ELSE 0])
BInt(n) == BDec(n, 0, 0)
BMicro(m) == BDec(0, m, 0)
BOf(c) == BDec(c[1], c[2], c[3])

(* a * (whole + micro / 10^6 + pico / 10^12), rounded down to 10^-12:      *)
(* digit i of the product collects digit i of a * whole, digit i + 2 of    *)
(* a * micro and digit i + 4 of a * pico, and the first digit the carries  *)
(* of the digits dropped.                                                  *)
BMulC(a, whole, micro, pico) ==
    LET At(i) == IF i <= Limbs THEN a[i] ELSE 0
        low == ((a[2] * micro + ((a[1] * micro) \div 1000)) \div 1000)
                 + ((a[4] * pico + ((a[3] * pico + ((a[2] * pico
                       + ((a[1] * pico) \div 1000)) \div 1000)) \div 1000)) \div 1000)
    IN  BNorm([i \in 1..Limbs |->
                 At(i) * whole + At(i + 2) * micro + At(i + 4) * pico
                   + (IF i = 1 THEN low ELSE 0)])

(* a * c for a decimal constant c of the code. *)
BTimes(a, c) == BMulC(a, c[1], c[2], c[3])

(* floor(a / n) for 0 < n < 2 * 10^6. *)
RECURSIVE DivRem(_, _, _)
DivRem(a, n, i) == IF i > Limbs THEN 0 ELSE (DivRem(a, n, i + 1) * 1000 + a[i]) % n
BDivInt(a, n) == BNorm([i \in 1..Limbs |-> (DivRem(a, n, i + 1) * 1000 + a[i]) \div n])

(* The product of two long numbers, rounded towards zero to 10^-12. *)
RECURSIVE Column(_, _, _, _)
Column(a, b, n, i) ==
    IF i > Limbs \/ i > n THEN 0
    ELSE (IF n + 1 - i <= Limbs THEN a[i] * b[n + 1 - i] ELSE 0) + Column(a, b, n, i + 1)
RECURSIVE Fold(_, _, _)
Fold(c, n, j) == IF j = n THEN c[j] ELSE c[j] + 1000 * Fold(c, n, j + 1)
BTake(c) ==
    [i \in 1..Limbs |-> IF i < Limbs THEN c[Frac + i] ELSE Fold(c, 2 * Limbs - 1, Frac + Limbs)]
BMulNat(a, b) ==
    BTake(Carry([m \in 1..(2 * Limbs - 1) |-> Column(a, b, m, 1)], 2 * Limbs - 1, 1, 0))
BSigned(negative, p) == IF negative THEN BNeg(p) ELSE BNorm(p)
BMul(a, b) == BSigned(BIsNeg(a) # BIsNeg(b), BMulNat(BAbs(a), BAbs(b)))

(* A long number rounded down to a whole number and to a micro value, and  *)
(* as an angle reduced to micro degrees in [0, 360).                       *)
BWhole(a) == Fold(a, Limbs, Frac + 1)
BToMicro(a) == BWhole(a) * U + a[4] * 1000 + a[3]
RECURSIVE DegRem(_, _)
DegRem(a, i) == IF i > Limbs THEN 0 ELSE (DegRem(a, i + 1) * 1000 + a[i]) % 360
BDeg(a) == DegRem(a, Frac + 1) * U + a[4] * 1000 + a[3]

(* f64::to_radians: degrees to radians, both micro (pi/180 = 0.017453293). *)
ToRadians(d) == BToMicro(BMulC(BMicro(d), 0, 17453, 293000))

(* f64::sin on [0, pi/2], micro radians to micro: the Taylor polynomial    *)
(* through the term of degree 11.                                          *)
SinTaylor(r) ==
    LET r2 == MulU(r, r)
        h5 == U - (r2 \div 110)
        h4 == U - (MulU(r2, h5) \div 72)
        h3 == U - (MulU(r2, h4) \div 42)
        h2 == U - (MulU(r2, h3) \div 20)
        h1 == U - (MulU(r2, h2) \div 6)
    IN  MulU(r, h1)

(* sin(x.to_radians()) for an angle x in micro degrees: reduced to the     *)
(* first quadrant by the symmetries of the sine.                           *)
SinQuadrant(d) ==
    IF d <= 90 * U THEN SinTaylor(ToRadians(d))
    ELSE IF d <= 180 * U THEN SinTaylor(ToRadians(180 * U - d))
    ELSE IF d <= 270 * U THEN -SinTaylor(ToRadians(d - 180 * U))
    ELSE -SinTaylor(ToRadians(360 * U - d))
SinDeg(x) == SinQuadrant(x % (360 * U))

(***************************************************************************)
(* The Sun                                                                 *)
(***************************************************************************)
JULIAN_CENTURY == 36525
EPOCH_2000_12 == 2451545

MEAN_ANOMALY_BASE == <<357, 529100, 0>>
MEAN_ANOMALY_COEF == <<35999, 50300, 0>>
MEAN_ANOMALY_QUAD == <<0, 155, 900000>>
MEAN_ANOMALY_CUBE == <<0, 0, 480000>>

MEAN_LONGITUDE_BASE == <<280, 466450, 0>>
MEAN_LONGITUDE_COEF == <<36000, 769830, 0>>
MEAN_LONGITUDE_QUAD == <<0, 303, 200000>>

EQUATION_CENTER_BASE == <<1, 914600, 0>>
EQUATION_CENTER_T_COEF == <<0, 4817, 0>>
EQUATION_CENTER_T2_COEF == <<0, 14, 0>>
EQUATION_CENTER_FIRST_HARMONIC == <<0, 19993, 0>>
EQUATION_CENTER_FIRST_HARMONIC_DECAY == <<0, 101, 0>>
EQUATION_CENTER_SECOND_HARMONIC == <<0, 290, 0>>

(* timezone / 24.0, in micro days, of a timezone given in minutes. *)
TzDays(timezone) == (timezone * U) \div 1440

(* longitude % 360.0: the remainder keeps the sign of the longitude, as    *)
(* f64's % does.  A long number of degrees to micro degrees.               *)
normalize_longitude(longitude) ==
    IF BIsNeg(longitude) THEN -BDeg(BNeg(longitude)) ELSE BDeg(longitude)

(* t = (jdn - EPOCH_2000_12) / JULIAN_CENTURY. *)
SunCenturies(jdn) == BDivInt(BSub(jdn, BInt(EPOCH_2000_12)), JULIAN_CENTURY)

(* The mean anomaly, reduced to micro degrees in [0, 360). *)
mean_anomaly(t, t_2) ==
    BDeg(BSub(BSub(BAdd(BOf(MEAN_ANOMALY_BASE), BTimes(t, MEAN_ANOMALY_COEF)),
                   BTimes(t_2, MEAN_ANOMALY_QUAD)),
              BTimes(BMul(t, t_2), MEAN_ANOMALY_CUBE)))

mean_longitude(t, t_2) ==
    BAdd(BAdd(BOf(MEAN_LONGITUDE_BASE), BTimes(t, MEAN_LONGITUDE_COEF)),
         BTimes(t_2, MEAN_LONGITUDE_QUAD))

(* In micro degrees; m is the mean anomaly. *)
equation_of_the_center(t, t_2, m) ==
    MulU(BToMicro(BSub(BSub(BOf(EQUATION_CENTER_BASE), BTimes(t, EQUATION_CENTER_T_COEF)),
                       BTimes(t_2, EQUATION_CENTER_T2_COEF))),
         SinDeg(m))
      + MulU(BToMicro(BSub(BOf(EQUATION_CENTER_FIRST_HARMONIC),
                           BTimes(t, EQUATION_CENTER_FIRST_HARMONIC_DECAY))),
             SinDeg(2 * m))
      + MulU(BToMicro(BOf(EQUATION_CENTER_SECOND_HARMONIC)), SinDeg(3 * m))

(* The true longitude of the Sun before its reduction, a long number of    *)
(* degrees; jdn is a long number of days.                                  *)
TrueLongitudeOf(t, t_2) ==
    BAdd(mean_longitude(t, t_2),
         BMicro(equation_of_the_center(t, t_2, mean_anomaly(t, t_2))))
TrueLongitudeAt(t) == TrueLongitudeOf(t, BMul(t, t))
true_longitude(jdn) == TrueLongitudeAt(SunCenturies(jdn))

(* The Sun's longitude in micro degrees, signed. *)
sun_longitude_aa98(jdn) == normalize_longitude(true_longitude(jdn))

(* jdn is a whole Julian day number, timezone is in minutes. *)
get_sun_longitude(jdn, timezone) ==
    sun_longitude_aa98(BDec(jdn, -500000 - TzDays(timezone), 0))

(***************************************************************************)
(* The Moon                                                                *)
(***************************************************************************)
(* t = julian_month_index / 1236.85. *)
MoonCenturies(julian_month_index) ==
    BDivInt(BMulC(BInt(julian_month_index), 100, 0, 0), 123685)

(* The mean new moon with the sign of its linear term wrong. *)
mean_new_moon_minus(k, t, t_2, t_3) ==
    BAdd(BAdd(BSub(BDec(2415020, 759330, 0), BMulC(k, 29, 530588, 680000)),
              BSub(BMulC(t_2, 0, 117, 800000), BMulC(t_3, 0, 0, 155000))),
         BMicro(MulU(330, SinDeg(BDeg(BSub(BAdd(BDec(166, 560000, 0),
                                                BMulC(t, 132, 870000, 0)),
                                           BMulC(t_2, 0, 9173, 0)))))))

(* mean_new_moon of new_moon_aa98; k is julian_month_index as a long number. *)
mean_new_moon(k, t, t_2, t_3) ==
    BAdd(BAdd(BAdd(BDec(2415020, 759330, 0), BMulC(k, 29, 530588, 680000)),
              BSub(BMulC(t_2, 0, 117, 800000), BMulC(t_3, 0, 0, 155000))),
         BMicro(MulU(330, SinDeg(BDeg(BSub(BAdd(BDec(166, 560000, 0),
                                                BMulC(t, 132, 870000, 0)),
                                           BMulC(t_2, 0, 9173, 0)))))))

(* The three angles, reduced to micro degrees in [0, 360). *)
sun_mean_anomaly(k, t_2, t_3) ==
    BDeg(BSub(BSub(BAdd(BDec(359, 224200, 0), BMulC(k, 29, 105356, 80000)),
                   BMulC(t_2, 0, 33, 300000)),
              BMulC(t_3, 0, 3, 470000)))

moon_mean_anomaly(k, t_2, t_3) ==
    BDeg(BAdd(BAdd(BAdd(BDec(306, 25300, 0), BMulC(k, 385, 816918, 60000)),
                   BMulC(t_2, 0, 10730, 600000)),
              BMulC(t_3, 0, 12, 360000)))

moon_argument_latitude(k, t_2, t_3) ==
    BDeg(BSub(BSub(BAdd(BDec(21, 296400, 0), BMulC(k, 390, 670506, 460000)),
                   BMulC(t_2, 0, 1652, 800000)),
              BMulC(t_3, 0, 2, 390000)))

(* In micro days; m_sun, m_moon and f are the three angles. *)
lunar_correction(t, m_sun, m_moon, f) ==
    MulU(BToMicro(BSub(BDec(0, 173400, 0), BMulC(t, 0, 393, 0))), SinDeg(m_sun))
      + MulU(2100, SinDeg(2 * m_sun))
      - (MulU(406800, SinDeg(m_moon)) + MulU(16100, SinDeg(2 * m_moon)))
      - MulU(400, SinDeg(3 * m_moon))
      + (MulU(10400, SinDeg(2 * f)) - MulU(5100, SinDeg(m_sun + m_moon)))
      - (MulU(7400, SinDeg(m_sun - m_moon)) + MulU(400, SinDeg(2 * f + m_sun)))
      - (MulU(400, SinDeg(2 * f - m_sun)) - MulU(600, SinDeg(2 * f + m_moon)))
      + (MulU(1000, SinDeg(2 * f - m_moon)) + MulU(500, SinDeg(2 * m_moon + m_sun)))

delta_t(t, t_2, t_3) ==
    IF BIsNeg(BAdd(t, BInt(11)))
    THEN BSub(BSub(BAdd(BAdd(BDec(0, 1000, 0), BMulC(t, 0, 839, 0)),
                        BMulC(t_2, 0, 226, 100000)),
                   BMulC(t_3, 0, 8, 450000)),
              BMulC(BMul(t, t_3), 0, 0, 81000))
    ELSE BAdd(BAdd(BDec(0, -278, 0), BMulC(t, 0, 265, 0)), BMulC(t_2, 0, 262, 0))

(* mean_new_moon + lunar_correction - delta_t, a long number of days. *)
NewMoonOf(k, t, t_2, t_3) ==
    BSub(BAdd(mean_new_moon(k, t, t_2, t_3),
              BMicro(lunar_correction(t, sun_mean_anomaly(k, t_2, t_3),
                                      moon_mean_anomaly(k, t_2, t_3),
                                      moon_argument_latitude(k, t_2, t_3)))),
         delta_t(t, t_2, t_3))
NewMoonSquared(k, t, t_2) == NewMoonOf(k, t, t_2, BMul(t_2, t))
NewMoonAt(k, t) == NewMoonSquared(k, t, BMul(t, t))

(* The Julian day of the new moon of month index k (an integer). *)
new_moon_aa98(julian_month_index) ==
    NewMoonAt(BInt(julian_month_index), MoonCenturies(julian_month_index))

(* The whole Julian day number on which the lunar month of index k begins: *)
(* (jd + 0.5 + timezone / 24.0).floor().                                   *)
get_new_moon_day(julian_month_index, timezone) ==
    BWhole(BAdd(new_moon_aa98(julian_month_index), BDec(0, 500000 + TzDays(timezone), 0)))

(***************************************************************************)
(* The date library (the time crate's Date, used through crate::Date): a   *)
(* date is a year and the ordinal of the day in it.                        *)
(***************************************************************************)
MIN_YEAR == -9999
MAX_YEAR == 9999

is_leap_year(year) == year % 4 = 0 /\ (year % 100 # 0 \/ year % 400 = 0)

days_in_year(year) == IF is_leap_year(year) THEN 366 ELSE 365

DaysBeforeMonth(year, month) ==
    LET common == <<0, 31, 59, 90, 120, 151, 181, 212, 243, 273, 304, 334>>
    IN  common[month] + (IF month > 2 /\ is_leap_year(year) THEN 1 ELSE 0)

(* Date::from_calendar_date: ok is FALSE for a year the library rejects    *)
(* (the model only builds days that exist in their month).                 *)
from_calendar_date(year, month, day) ==
    [ok |-> MIN_YEAR <= year /\ year <= MAX_YEAR,
     year |-> year,
     ordinal |-> DaysBeforeMonth(year, month) + day]

(* Date::to_julian_day *)
to_julian_day(date) ==
    LET year == date.year - 1
    IN  date.ordinal + 365 * year + (year \div 4) - (year \div 100) + (year \div 400)
          + 1721425

(* Date::next_day: the day after, or none at the library's last day. *)
next_day(date) ==
    IF date.ordinal < days_in_year(date.year)
    THEN [date EXCEPT !.ordinal = date.ordinal + 1]
    ELSE [ok |-> date.year < MAX_YEAR, year |-> date.year + 1, ordinal |-> 1]

(***************************************************************************)
(* JulianMonthIndex                                                        *)
(***************************************************************************)
I32_MAX == 2147483647
I32_MIN == -I32_MAX - 1

JULIAN_MOON_CYCLE == <<29, 530588, 853000>>
JULIAN_DAY_NOON_JAN_1_1900 == <<2415021, 76998, 695000>>

(* k * JULIAN_MOON_CYCLE, exactly. *)
MoonCycles(k) == BTimes(BInt(k), JULIAN_MOON_CYCLE)

(* value - JULIAN_DAY_NOON_JAN_1_1900 for a whole Julian day number,       *)
(* exactly.                                                                *)
EpochOffset(value) == BSub(BInt(value), BOf(JULIAN_DAY_NOON_JAN_1_1900))

(* offset / JULIAN_MOON_CYCLE as a real number: its floor, and whether it  *)
(* is that integer exactly.  The floor is the one k with                   *)
(* k * cycle <= offset < (k + 1) * cycle, searched around an estimate      *)
(* (the whole days of offset times 1000 / 29531).                          *)
CycleEstimate(days) == (days \div 29531) * 1000 + (((days % 29531) * 1000) \div 29531)
CycleResult(offset, fl) == [floor |-> fl, exact |-> MoonCycles(fl) = offset]
CycleFloor(offset, est) ==
    CycleResult(offset,
                CHOOSE k \in (est - 4)..(est + 4) :
                    BLeq(MoonCycles(k), offset) /\ BLess(offset, MoonCycles(k + 1)))
CycleQuotient(offset) == CycleFloor(offset, CycleEstimate(BWhole(offset)))

(* A cast that rounds towards minus infinity instead. *)
AsI32Floor(x) == x.floor

(* `as i32` of a real number given by its floor: towards zero, saturating. *)
AsI32(x) ==
    LET towards_zero == IF x.floor < 0 /\ ~x.exact THEN x.floor + 1 ELSE x.floor
    IN  IF towards_zero > I32_MAX THEN I32_MAX
        ELSE IF towards_zero < I32_MIN THEN I32_MIN
        ELSE towards_zero

(* JulianMonthIndex::from_julian_day, for a whole Julian day number (every *)
(* caller passes an i32 converted to f64).                                 *)
from_julian_day(value) == AsI32(CycleQuotient(EpochOffset(value)))

(***************************************************************************)
(* Month 11, the leap month, the conversion                                *)
(***************************************************************************)
SOLAR_LONGITUDE_THRESHOLD == 9
SOLAR_LONGITUDE_SEGMENT == 30

(* (x / 30.0).trunc() and (x / 30.0).floor() of a longitude in micro       *)
(* degrees.                                                                *)
TruncDiv(a, b) == IF a < 0 THEN -((-a) \div b) ELSE a \div b
SegmentTrunc(longitude) == TruncDiv(longitude, SOLAR_LONGITUDE_SEGMENT * U)
SegmentFloor(longitude) == longitude \div (SOLAR_LONGITUDE_SEGMENT * U)

(* get_lunar_month_11: ok is FALSE when the expect on the date of December *)
(* 31 panics ("Invalid date for year").                                    *)
Month11Pick(k, timezone, new_moon_day, sun_longitute) ==
    IF sun_longitute >= SOLAR_LONGITUDE_THRESHOLD
    THEN [ok |-> TRUE, day |-> get_new_moon_day(k - 1, timezone)]
    ELSE [ok |-> TRUE, day |-> new_moon_day]
Month11Sun(k, timezone, new_moon_day) ==
    The({Month11Pick(k, timezone, new_moon_day, sun_longitute) :
           sun_longitute \in {SegmentTrunc(get_sun_longitude(new_moon_day, timezone))}})
Month11At(k, timezone) ==
    The({Month11Sun(k, timezone, new_moon_day) :
           new_moon_day \in {get_new_moon_day(k, timezone)}})
Month11Of(date, timezone) ==
    IF ~date.ok THEN [ok |-> FALSE, day |-> 0]
    ELSE The({Month11At(k, timezone) : k \in {from_julian_day(to_julian_day(date))}})
get_lunar_month_11(year, timezone) ==
    The({Month11Of(date, timezone) : date \in {from_calendar_date(year, 12, 31)}})

(* The segment computed by iteration i of get_leap_month_offset. *)
LeapSegment(julian_month_index, i, timezone) ==
    The({SegmentFloor(get_sun_longitude(day_number, timezone)) :
           day_number \in {get_new_moon_day(julian_month_index + i, timezone)}})

(* The locals of the loop of get_leap_month_offset: the next i, the last   *)
(* segment, and the value returned (Running until the function returns).   *)
Running == -1
LeapStart == [i |-> 1, last_solar_longitude |-> 0, ret |-> Running]

(* Returning the index of the iteration instead of the offset. *)
LeapReturnIndex(i) == i

LeapReturn(i) == i - 1

(* One iteration of `for i in 1..14`, or the return of 14 after the loop. *)
LeapCompare(st, solar_longitude) ==
    IF solar_longitude = st.last_solar_longitude
    THEN [st EXCEPT !.ret = LeapReturn(st.i)]
    ELSE [i |-> st.i + 1, last_solar_longitude |-> solar_longitude, ret |-> Running]
LeapStep(julian_month_index, timezone, st) ==
    IF st.i >= 14 THEN [st EXCEPT !.ret = 14]
    ELSE The({LeapCompare(st, solar_longitude) :
                solar_longitude \in {LeapSegment(julian_month_index, st.i, timezone)}})

RECURSIVE LeapRun(_, _, _)
LeapRun(julian_month_index, timezone, st) ==
    IF st.ret # Running THEN st.ret
    ELSE The({LeapRun(julian_month_index, timezone, next) :
                next \in {LeapStep(julian_month_index, timezone, st)}})

get_leap_month_offset(first_month_11, timezone) ==
    The({LeapRun(julian_month_index, timezone, LeapStart) :
           julian_month_index \in {from_julian_day(first_month_11)}})

calculate_month_between_julian_days(julian_day_1, julian_day_2) ==
    TruncDiv(julian_day_1 - julian_day_2, 29)

(* The timezone of the fallback of month_start: the literal 7.0, in minutes *)
FALLBACK_TIMEZONE == 7 * 60

NotConsulted == -1

(* The comparison with the leap month made strict. *)
NumberedMonthStrict(is_leap_year13, month_difference, leap_month_index) ==
    IF is_leap_year13 /\ month_difference > leap_month_index
    THEN month_difference + 10
    ELSE month_difference + 11

(* The month of the date before `if lunar_month > 12`. *)
NumberedMonth(is_leap_year13, month_difference, leap_month_index) ==
    IF is_leap_year13 /\ month_difference >= leap_month_index
    THEN month_difference + 10
    ELSE month_difference + 11

LeapFlag(is_leap_year13, month_difference, leap_month_index) ==
    IF is_leap_year13 /\ month_difference = leap_month_index THEN 1 ELSE 0

LunarYear(year, lunar_month, month_difference) ==
    IF lunar_month >= 11 /\ month_difference < 4 THEN year - 1 ELSE year

(* convert_date_to_lichta: the tuple returned, with the locals the tuple   *)
(* is computed from; panic is TRUE when a lookup of month 11 panics.       *)
ConvertResult(year, julian_day, month_start, first_month_11, last_month_11, month_difference, leap_month_index) ==
    LET is_leap_year13 == last_month_11 - first_month_11 > 365
        numbered == NumberedMonth(is_leap_year13, month_difference, leap_month_index)
        lunar_month == IF numbered > 12 THEN numbered - 12 ELSE numbered
    IN  [panic |-> FALSE,
         lunar_day |-> julian_day - month_start + 1,
         lunar_month |-> lunar_month,
         lunar_year |-> LunarYear(year, lunar_month, month_difference),
         lunar_leap |-> LeapFlag(is_leap_year13, month_difference, leap_month_index),
         julian_day |-> julian_day, month_start |-> month_start,
         first_month_11 |-> first_month_11, last_month_11 |-> last_month_11,
         month_difference |-> month_difference,
         leap_month_index |-> leap_month_index, numbered |-> numbered]

(* From `let month_difference` on: both months 11 are known. *)
ConvertBetween(year, julian_day, timezone, month_start, first_month_11, last_month_11) ==
    The({ConvertResult(year, julian_day, month_start, first_month_11, last_month_11,
                       calculate_month_between_julian_days(month_start, first_month_11),
                       leap_month_index) :
           leap_month_index \in
               {IF last_month_11 - first_month_11 > 365
                THEN get_leap_month_offset(first_month_11, timezone)
                ELSE NotConsulted}})

(* The second lookup of month 11, of the year before or of the year after. *)
ConvertYear(year, julian_day, timezone, month_start, this_month_11) ==
    The({IF ~other_month_11.ok THEN [panic |-> TRUE]
         ELSE IF this_month_11.day >= month_start
              THEN ConvertBetween(year, julian_day, timezone, month_start,
                                  other_month_11.day, this_month_11.day)
              ELSE ConvertBetween(year, julian_day, timezone, month_start,
                                  this_month_11.day, other_month_11.day) :
           other_month_11 \in
               {get_lunar_month_11(IF this_month_11.day >= month_start
                                   THEN year - 1 ELSE year + 1, timezone)}})

ConvertMonth(year, julian_day, timezone, month_start) ==
    The({ConvertYear(year, julian_day, timezone, month_start, this_month_11) :
           this_month_11 \in {get_lunar_month_11(year, timezone)}})

(* `if month_start > julian_day`: the month of the index itself, with the  *)
(* timezone 7.0.                                                           *)
ConvertDay(year, julian_day, timezone, julian_month_index) ==
    The({ConvertMonth(year, julian_day, timezone, month_start) :
           month_start \in
               {The({IF next_start > julian_day
                     THEN get_new_moon_day(julian_month_index, FALLBACK_TIMEZONE)
                     ELSE next_start :
                       next_start \in {get_new_moon_day(julian_month_index + 1, timezone)}})}})

ConvertAt(year, julian_day, timezone) ==
    The({ConvertDay(year, julian_day, timezone, julian_month_index) :
           julian_month_index \in {from_julian_day(julian_day)}})

convert_date_to_lichta(date, timezone) ==
    The({ConvertAt(date.year, julian_day, timezone) : julian_day \in {to_julian_day(date)}})

(***************************************************************************)
(* impl From<f64> for JulianMonthIndex.  The f64 argument is nan or        *)
(* +-(high * 65536 + low + half / 2): wide enough to hold values on both   *)
(* sides of the i32 range.                                                 *)
(***************************************************************************)
(* value <= i32::MAX.into(); every comparison with nan is false. *)
LeqI32Max(x) ==
    /\ ~x.nan
    /\ \/ x.negative
       \/ x.high < 32767
       \/ x.high = 32767 /\ ~(x.low = 65535 /\ x.half = 1)

(* value as i32: nan is 0, the fraction is dropped, the rest saturates. *)
CastI32(x) ==
    IF x.nan THEN 0
    ELSE IF x.high >= 32768 THEN (IF x.negative THEN I32_MIN ELSE I32_MAX)
    ELSE IF x.negative THEN -(x.high * 65536 + x.low)
    ELSE x.high * 65536 + x.low

from_f64(x) ==
    IF LeqI32Max(x) THEN [panic |-> FALSE, index |-> CastI32(x)]
    ELSE [panic |-> TRUE, index |-> 0]

(***************************************************************************)
(* The state: the operation being run (pc), its arguments (date, timezone, *)
(* value), its locals (st, count) and its result (lichta, ret);            *)
(* prev_year is the lunar year returned for the day before.                *)
(***************************************************************************)
VARIABLES pc, date, timezone, value, st, count, lichta, ret, prev_year

vars == <<pc, date, timezone, value, st, count, lichta, ret, prev_year>>

NoDate == [ok |-> FALSE, year |-> 0, ordinal |-> 0]
NoResult == [panic |-> FALSE]

(* Bounds of the inputs. *)
WindowLen == 30
IndexSpan == 120
MoonSpan == 100
LeapSpan == 25
LongitudeSpan == 150
YearSpan == 200

Timezones == {7 * 60, -5 * 60}

(* The first days of the runs of consecutive dates that are converted. *)
StartDates ==
    {from_calendar_date(x[1], x[2], x[3]) :
        x \in {<<-9999, 1, 1>>, <<1910, 12, 29>>, <<1950, 2, 15>>, <<2020, 6, 19>>,
               <<2020, 7, 19>>, <<2022, 5, 22>>, <<2023, 1, 20>>, <<2023, 2, 18>>,
               <<2024, 5, 22>>, <<2033, 12, 20>>, <<2054, 5, 5>>, <<9999, 12, 28>>}}

-----------------------------------------------------------------------------
(* convert_date_to_lichta over runs of consecutive dates. *)
Init ==
    /\ pc = "call"
    /\ date \in StartDates
    /\ timezone \in Timezones
    /\ value = 0
    /\ st = LeapStart
    /\ count = 0
    /\ lichta = NoResult
    /\ ret = 0
    /\ prev_year = 0

Convert ==
    /\ pc = "call"
    /\ lichta' = convert_date_to_lichta(date, timezone)
    /\ pc' = IF lichta'.panic THEN "panic" ELSE "done"
    /\ UNCHANGED <<date, timezone, value, st, count, ret, prev_year>>

(* The caller goes on to the next day with the same timezone. *)
NextDate ==
    /\ pc = "done"
    /\ count < WindowLen
    /\ next_day(date).ok
    /\ date' = next_day(date)
    /\ prev_year' = lichta.lunar_year
    /\ count' = count + 1
    /\ pc' = "call"
    /\ UNCHANGED <<timezone, value, st, lichta, ret>>

Next == Convert \/ NextDate

Spec == Init /\ [][Next]_vars

-----------------------------------------------------------------------------
(* JulianMonthIndex::from_julian_day on the days around the epoch and near  *)
(* the first and the last day of the date library.                         *)
IndexDays ==
    UNION {(b - IndexSpan)..(b + IndexSpan) : b \in {-1930879, 2415021, 5373364}}

InitIndex ==
    /\ pc = "call"
    /\ value \in IndexDays
    /\ date = NoDate /\ timezone = 0 /\ st = LeapStart /\ count = 0
    /\ lichta = NoResult /\ ret = 0 /\ prev_year = 0

FromJulianDay ==
    /\ pc = "call"
    /\ ret' = from_julian_day(value)
    /\ pc' = "done"
    /\ UNCHANGED <<date, timezone, value, st, count, lichta, prev_year>>

SpecIndex == InitIndex /\ [][FromJulianDay]_vars

-----------------------------------------------------------------------------
(* JulianMonthIndex::from(f64) *)
Reals ==
    {[nan |-> TRUE, negative |-> FALSE, high |-> 0, low |-> 0, half |-> 0]} \cup
    [nan : {FALSE}, negative : BOOLEAN, high : {0, 1, 32767, 32768, 32769, 40000},
     low : {0, 1, 65535}, half : {0, 1}]

InitFromReal ==
    /\ pc = "call"
    /\ value \in Reals
    /\ date = NoDate /\ timezone = 0 /\ st = LeapStart /\ count = 0
    /\ lichta = NoResult /\ ret = 0 /\ prev_year = 0

FromReal ==
    /\ pc = "call"
    /\ ret' = from_f64(value)
    /\ pc' = IF ret'.panic THEN "panic" ELSE "done"
    /\ UNCHANGED <<date, timezone, value, st, count, lichta, prev_year>>

SpecFromReal == InitFromReal /\ [][FromReal]_vars

-----------------------------------------------------------------------------
(* get_new_moon_day at k and at k + 1, for month indexes far before the   *)
(* years the date library accepts, at both ends of those years, around the *)
(* change of branch of delta_t, and in 1900-2100.                          *)
MoonIndexes ==
    {b + j : b \in {-7000000, -147170, -13650, 0, 1500, 100094}, j \in 0..MoonSpan}

InitMoon ==
    /\ pc = "call"
    /\ value \in MoonIndexes
    /\ timezone \in Timezones \cup {0}
    /\ date = NoDate /\ st = LeapStart /\ count = 0
    /\ lichta = NoResult /\ ret = 0 /\ prev_year = 0

NewMoonDays ==
    /\ pc = "call"
    /\ ret' = <<get_new_moon_day(value, timezone), get_new_moon_day(value + 1, timezone)>>
    /\ pc' = "done"
    /\ UNCHANGED <<date, timezone, value, st, count, lichta, prev_year>>

SpecMoon == InitMoon /\ [][NewMoonDays]_vars

-----------------------------------------------------------------------------
(* get_sun_longitude on days from 1900 on. *)
LongitudeDays == {2415021 + 500 * j : j \in 0..LongitudeSpan} \cup {2451520}

InitLongitude ==
    /\ pc = "call"
    /\ value \in LongitudeDays
    /\ timezone \in Timezones
    /\ date = NoDate /\ st = LeapStart /\ count = 0
    /\ lichta = NoResult /\ ret = 0 /\ prev_year = 0

SunLongitude ==
    /\ pc = "call"
    /\ ret' = get_sun_longitude(value, timezone)
    /\ pc' = "done"
    /\ UNCHANGED <<date, timezone, value, st, count, lichta, prev_year>>

SpecLongitude == InitLongitude /\ [][SunLongitude]_vars

-----------------------------------------------------------------------------
(* get_lunar_month_11 for the years 1900 to 2100. *)
InitMonth11 ==
    /\ pc = "call"
    /\ value \in 1900..(1900 + YearSpan)
    /\ timezone \in Timezones
    /\ date = NoDate /\ st = LeapStart /\ count = 0
    /\ lichta = NoResult /\ ret = 0 /\ prev_year = 0

LunarMonth11 ==
    /\ pc = "call"
    /\ ret' = get_lunar_month_11(value, timezone).day
    /\ pc' = "done"
    /\ UNCHANGED <<date, timezone, value, st, count, lichta, prev_year>>

SpecMonth11 == InitMonth11 /\ [][LunarMonth11]_vars

-----------------------------------------------------------------------------
(* get_leap_month_offset, one iteration of its loop at a time; count is    *)
(* the number of iterations run.                                           *)
LeapDays == {2459908 + 30 * j : j \in 0..LeapSpan} \cup {2415021 + 30 * j : j \in 0..LeapSpan}

InitLeap ==
    /\ pc = "loop"
    /\ value \in LeapDays
    /\ timezone \in Timezones
    /\ st = LeapStart
    /\ count = 0
    /\ date = NoDate /\ lichta = NoResult /\ ret = 0 /\ prev_year = 0

LeapIteration ==
    /\ pc = "loop"
    /\ st' = LeapStep(from_julian_day(value), timezone, st)
    /\ count' = IF st.i < 14 THEN count + 1 ELSE count
    /\ pc' = IF st'.ret # Running THEN "done" ELSE "loop"
    /\ ret' = st'.ret
    /\ UNCHANGED <<date, timezone, value, lichta, prev_year>>

SpecLeap == InitLeap /\ [][LeapIteration]_vars

-----------------------------------------------------------------------------
(* C1: for every date of the years 1900 to 2100 the conversion returns a   *)
(* lunar day in 1..30 and a lunar month in 1..12, and the start of the     *)
(* month is never after the date.                                          *)
C1_DayAndMonthInRange ==
    (pc = "done" /\ date.year \in 1900..2100) =>
        /\ lichta.month_start <= lichta.julian_day
        /\ lichta.lunar_day \in 1..30
        /\ lichta.lunar_month \in 1..12

(* The reals whose whole part is outside the i32 range, and the whole     *)
(* part of the others.                                                     *)
AboveI32(x) == ~x.nan /\ ~x.negative /\ ~LeqI32Max(x)
BelowI32(x) == ~x.nan /\ x.negative /\ x.high >= 32768 /\ ~(x.high = 32768 /\ x.low = 0)
TruncatedReal(x) ==
    IF x.negative
    THEN (IF x.high = 32768 THEN I32_MIN ELSE -(x.high * 65536 + x.low))
    ELSE x.high * 65536 + x.low

(* C2: the conversion from a real number fails whenever the number is      *)
(* outside the i32 range, above it (greater than 2147483647) or below it   *)
(* (at most -2147483649), and otherwise returns the number truncated       *)
(* towards zero.                                                           *)
C2_FromRealFailsOutOfRange ==
    (pc # "call" /\ ~value.nan) =>
        IF AboveI32(value) \/ BelowI32(value)
        THEN ret.panic
        ELSE ~ret.panic /\ ret.index = TruncatedReal(value)

(* C3: the conversion of a date the library accepts never fails: the       *)
(* lookups of month 11 of the years before and after add no failure.       *)
C3_NoFailureForValidDate == pc # "panic"

(* C4: from_julian_day returns the quotient (jdn - epoch) / cycle rounded  *)
(* towards zero: at or after the epoch k * cycle <= jdn - epoch <          *)
(* (k + 1) * cycle, and before it (k - 1) * cycle < jdn - epoch <=         *)
(* k * cycle, which is the floor plus one when the quotient is no integer. *)
C4_IndexTruncatesTowardsZero ==
    pc = "done" =>
        LET offset == EpochOffset(value)
        IN  IF BIsNeg(offset)
            THEN /\ BLess(MoonCycles(ret - 1), offset)
                 /\ BLeq(offset, MoonCycles(ret))
                 /\ (MoonCycles(ret) # offset =>
                        /\ BLeq(MoonCycles(ret - 1), offset)
                        /\ BLess(offset, MoonCycles(ret)))
            ELSE /\ BLeq(MoonCycles(ret), offset)
                 /\ BLess(offset, MoonCycles(ret + 1))

C4_Witness ==
    /\ pc = "done"
    /\ value < 2415021 - 30
    /\ ret < 0
    /\ BLess(MoonCycles(ret - 1), EpochOffset(value))
    /\ BLess(EpochOffset(value), MoonCycles(ret))

(* C5, as stated: for every month index k the day of the new moon of      *)
(* index k + 1 is after the day of the new moon of index k.                *)
C5_NewMoonsAdvanceForEveryIndex == pc = "done" => ret[2] > ret[1]

(* The indexes that the conversion of a date of the date library asks     *)
(* for: from the index of the first day of MIN_YEAR to the index of the    *)
(* last day of MAX_YEAR plus the 13 months that get_leap_month_offset      *)
(* looks ahead.                                                            *)
FirstIndex == from_julian_day(to_julian_day(from_calendar_date(MIN_YEAR, 1, 1)))
LastIndex == from_julian_day(to_julian_day(from_calendar_date(MAX_YEAR, 12, 31))) + 13

(* C5, amended: the day of the new moon of index k + 1 is after the day of *)
(* the new moon of index k for every k and k + 1 from FirstIndex to        *)
(* LastIndex.                                                              *)
C5_NewMoonsAdvance ==
    (pc = "done" /\ FirstIndex <= value /\ value < LastIndex) => ret[2] > ret[1]

C5_Witness ==
    /\ pc = "done"
    /\ FirstIndex <= value /\ value < -13606
    /\ timezone < 0
    /\ ret[2] = ret[1] + 29

(* The longitude of the Sun in micro degrees, taken in [0, 360). *)
SunDegrees(jdn, tz) == BDeg(true_longitude(BDec(jdn, -500000 - TzDays(tz), 0)))

(* The day the claim expects for the index k of December 31. *)
SolsticePick(k, tz, new_moon_day) ==
    IF SunDegrees(new_moon_day, tz) >= 270 * U
    THEN get_new_moon_day(k - 1, tz)
    ELSE new_moon_day
SolsticeAt(k, tz) ==
    The({SolsticePick(k, tz, new_moon_day) :
           new_moon_day \in {get_new_moon_day(k, tz)}})

(* C6: get_lunar_month_11 returns the new moon before the one of index k   *)
(* whenever the Sun at the new moon of index k is at 270 degrees or more   *)
(* of its longitude (taken in 0..360), and the new moon of index k         *)
(* otherwise; k is the index of December 31.                               *)
C6_Month11ContainsSolstice ==
    pc = "done" =>
        ret = The({SolsticeAt(k, timezone) :
                     k \in {from_julian_day(to_julian_day(from_calendar_date(value, 12, 31)))}})

(* C7: over consecutive dates converted with one timezone the lunar year   *)
(* never decreases.                                                        *)
C7_LunarYearNeverDecreases ==
    (pc = "done" /\ count > 0) => prev_year <= lichta.lunar_year

(* C8: the leap flag is set exactly when the lunar year has 13 months and  *)
(* month_difference is the offset of the leap month; in such a year the    *)
(* months from that offset on are numbered month_difference + 10 and the   *)
(* earlier ones month_difference + 11; in a year of 12 months the detector *)
(* is not consulted, the flag is clear and the number is                   *)
(* month_difference + 11.                                                  *)
C8_LeapMonthNumbering ==
    pc = "done" =>
        IF lichta.last_month_11 - lichta.first_month_11 > 365
        THEN LET offset == get_leap_month_offset(lichta.first_month_11, timezone)
             IN  /\ lichta.leap_month_index = offset
                 /\ (lichta.lunar_leap = 1 <=> lichta.month_difference = offset)
                 /\ lichta.lunar_leap \in {0, 1}
                 /\ (lichta.month_difference >= offset =>
                        lichta.numbered = lichta.month_difference + 10)
                 /\ (lichta.month_difference < offset =>
                        lichta.numbered = lichta.month_difference + 11)
        ELSE /\ lichta.leap_month_index = NotConsulted
             /\ lichta.lunar_leap = 0
             /\ lichta.numbered = lichta.month_difference + 11

C8_Witness ==
    /\ pc = "done"
    /\ lichta.last_month_11 - lichta.first_month_11 > 365
    /\ lichta.lunar_leap = 1
    /\ lichta.month_difference = lichta.leap_month_index

(* C9: get_leap_month_offset returns i - 1 for the least i in 1..13 whose  *)
(* segment equals the one before it (0 before the first), and 14 exactly   *)
(* when there is none; the result is in 0..12 or is 14, and the loop runs  *)
(* at most 13 times.                                                       *)
C9_LeapOffsetScan ==
    /\ count <= 13
    /\ pc = "done" =>
          LET k == from_julian_day(value)
              segment == [j \in 0..13 |->
                            IF j = 0 THEN 0 ELSE LeapSegment(k, j, timezone)]
              matches == {j \in 1..13 : segment[j] = segment[j - 1]}
          IN  /\ ret \in (0..12) \cup {14}
              /\ (ret = 14 <=> matches = {})
              /\ (matches # {} =>
                    /\ ret + 1 \in matches
                    /\ \A j \in matches : ret + 1 <= j)
              /\ count = IF ret = 14 THEN 13 ELSE ret + 1

C9_Witness == pc = "done" /\ value = 2459908 /\ timezone = 7 * 60 /\ ret = 3 /\ count = 4

(* C10: get_sun_longitude returns a longitude from 0 to 360 degrees. *)
C10_LongitudeInRange == pc = "done" => (0 <= ret /\ ret <= 360 * U)
====
